---- MODULE Spec2Model ----
\* A model of gossa (src/gossa.go): a web server that shares one directory
\* tree.  Strings are sequences of one-symbol strings, so that the string
\* tests of the code (HasPrefix, TrimPrefix, Contains) are computed on
\* characters and the path functions (Join, Abs, EvalSymlinks) on segments.
\* The filesystem is a function from absolute paths (sequences of names) to
\* nodes; it covers the whole machine, not only the shared directory.
EXTENDS Integers, Sequences, FiniteSets, TLC

VARIABLES fs, cfg, last, nmut, inflight

vars == <<fs, cfg, last, nmut, inflight>>

-----------------------------------------------------------------------------
\* Bounds of the model.

\* Most segments in a raw path handed to enforcePath alone (SpecPath).
MaxSegs == 3
\* Most requests that change the filesystem in one behaviour.
MaxMut == 1
\* Most symlinks followed while resolving one path (ELOOP beyond).
MaxLinks == 4

-----------------------------------------------------------------------------
\* Strings (package strings).

SLASH == "/"
DOT == <<".">>
DOTDOT == <<".", ".">>

HasPrefix(s, prefix) ==
    /\ Len(s) >= Len(prefix)
    /\ SubSeq(s, 1, Len(prefix)) = prefix

HasSuffix(s, suffix) ==
    /\ Len(s) >= Len(suffix)
    /\ SubSeq(s, Len(s) - Len(suffix) + 1, Len(s)) = suffix

TrimPrefix(s, prefix) ==
    IF HasPrefix(s, prefix) THEN SubSeq(s, Len(prefix) + 1, Len(s)) ELSE s

Contains(s, substr) ==
    \E i \in 1..(Len(s) - Len(substr) + 1) :
        SubSeq(s, i, i + Len(substr) - 1) = substr

\* strings.Split(s, "/"): the segments between the slashes, empty ones kept.
RECURSIVE Split(_)
Split(s) ==
    IF s = <<>> THEN << <<>> >>
    ELSE LET r == Split(Tail(s)) IN
         IF Head(s) = SLASH THEN << <<>> >> \o r
         ELSE << <<Head(s)>> \o Head(r) >> \o Tail(r)

\* html.UnescapeString: a character reference becomes its character.
UnescapeChar(c) ==
    IF c = "&#47;" THEN "/" ELSE IF c = "&#46;" THEN "." ELSE c

UnescapeString(s) == [i \in 1..Len(s) |-> UnescapeChar(s[i])]

-----------------------------------------------------------------------------
\* Paths (package path/filepath).  An absolute path in its clean form is
\* written as the sequence of its names; <<>> is "/".

RECURSIVE CleanSegs(_, _)
CleanSegs(segs, acc) ==
    IF segs = <<>> THEN acc
    ELSE LET h == Head(segs) IN
         IF h = <<>> \/ h = DOT THEN CleanSegs(Tail(segs), acc)
         ELSE IF h = DOTDOT
         THEN CleanSegs(Tail(segs),
                        IF acc = <<>> THEN acc ELSE SubSeq(acc, 1, Len(acc) - 1))
         ELSE CleanSegs(Tail(segs), Append(acc, h))

\* The names of a rooted path string, "." and ".." applied lexically.
Names(s) == CleanSegs(Split(s), <<>>)

RECURSIVE Str(_)
\* The string of an absolute path: "/" for the root, else "/n1/n2...".
Str(names) ==
    IF names = <<>> THEN <<SLASH>>
    ELSE IF Len(names) = 1 THEN <<SLASH>> \o names[1]
    ELSE Str(SubSeq(names, 1, Len(names) - 1)) \o <<SLASH>> \o names[Len(names)]

\* filepath.Clean of a rooted path.
Clean(s) == Str(Names(s))

\* filepath.Join(a, b) for an absolute a: Clean(a + "/" + b).
Join(a, b) == Clean(a \o <<SLASH>> \o b)

\* filepath.Abs of a path that is already absolute: Clean, and no error.
Abs(s) == Clean(s)

Parent(names) == IF names = <<>> THEN names ELSE SubSeq(names, 1, Len(names) - 1)

IsUnder(names, dir) ==
    /\ Len(names) >= Len(dir)
    /\ SubSeq(names, 1, Len(dir)) = dir

-----------------------------------------------------------------------------
\* The filesystem.

Dir == [kind |-> "dir", target |-> <<>>, data |-> 0]
File(d) == [kind |-> "file", target |-> <<>>, data |-> d]
Link(t) == [kind |-> "link", target |-> t, data |-> 0]

Exists(f, names) == names \in DOMAIN f

IsDirAt(f, names) == Exists(f, names) /\ f[names].kind = "dir"

Found(names) == [ok |-> TRUE, path |-> names, err |-> ""]
Failed(e) == [ok |-> FALSE, path |-> <<>>, err |-> e]

\* The walk the kernel makes along a path: cur is the directory reached,
\* rest the segments still to take.  A symlink met on the way is replaced by
\* the segments of its target; the last one only when followLast.  The
\* result is the place the path names (it need not exist, its parent does).
RECURSIVE WalkPath(_, _, _, _, _)
WalkPath(f, cur, rest, followLast, fuel) ==
    IF rest = <<>> THEN Found(cur)
    ELSE LET h == Head(rest)
             t == Tail(rest)
             cand == Append(cur, h)
         IN
         IF h = <<>> \/ h = DOT THEN WalkPath(f, cur, t, followLast, fuel)
         ELSE IF h = DOTDOT THEN WalkPath(f, Parent(cur), t, followLast, fuel)
         ELSE IF ~Exists(f, cand)
         THEN IF t = <<>> THEN Found(cand) ELSE Failed("ENOENT")
         ELSE IF f[cand].kind = "dir" THEN WalkPath(f, cand, t, followLast, fuel)
         ELSE IF f[cand].kind = "file"
         THEN IF t = <<>> THEN Found(cand) ELSE Failed("ENOTDIR")
         ELSE \* a symlink
              IF t = <<>> /\ ~followLast THEN Found(cand)
              ELSE IF fuel = 0 THEN Failed("ELOOP")
              ELSE LET tg == f[cand].target IN
                   WalkPath(f,
                            IF HasPrefix(tg, <<SLASH>>) THEN <<>> ELSE cur,
                            Split(tg) \o t, followLast, fuel - 1)

\* Where a clean absolute path leads, symlinks followed (stat) or the last
\* one not (lstat).
Resolve(f, names) == WalkPath(f, <<>>, names, TRUE, MaxLinks)
LResolve(f, names) == WalkPath(f, <<>>, names, FALSE, MaxLinks)

\* os.Stat and os.Lstat succeed when the place reached exists.
StatOk(f, names) ==
    LET r == Resolve(f, names) IN r.ok /\ Exists(f, r.path)

LstatOk(f, names) ==
    LET r == LResolve(f, names) IN r.ok /\ Exists(f, r.path)

\* filepath.EvalSymlinks: the path with every symlink replaced, or "" with
\* an error when a component does not exist.
EvalSymlinks(f, s) ==
    LET r == Resolve(f, Names(s)) IN
    IF r.ok /\ Exists(f, r.path) THEN Str(r.path) ELSE <<>>

-----------------------------------------------------------------------------
\* The calls that change the filesystem (package os).  Each gives the error
\* (ok) and the filesystem after it.

Children(f, dir) == { q \in DOMAIN f : Len(q) = Len(dir) + 1 /\ IsUnder(q, dir) }

\* os.Mkdir: the last name must not exist, not even as a symlink.
Mkdir(f, names) ==
    LET r == LResolve(f, names) IN
    IF r.ok /\ ~Exists(f, r.path)
    THEN [ok |-> TRUE, fs |-> (r.path :> Dir) @@ f]
    ELSE [ok |-> FALSE, fs |-> f]

\* os.MkdirAll: nothing to do for a directory, an error for another kind of
\* file; else the parent first, then the directory itself.
RECURSIVE MkdirAll(_, _)
MkdirAll(f, names) ==
    IF StatOk(f, names)
    THEN [ok |-> f[Resolve(f, names).path].kind = "dir", fs |-> f]
    ELSE LET pr == MkdirAll(f, Parent(names)) IN
         IF ~pr.ok THEN pr ELSE Mkdir(pr.fs, names)

\* The entries of f with the subtree at src moved to dst.
Moved(f, src, dst) ==
    LET keep == { q \in DOMAIN f : ~IsUnder(q, src) /\ q # dst }
        to(q) == dst \o SubSeq(q, Len(src) + 1, Len(q))
        new == { to(q) : q \in { x \in DOMAIN f : IsUnder(x, src) } }
    IN  [q \in keep \cup new |->
            IF q \in new
            THEN f[CHOOSE x \in DOMAIN f : IsUnder(x, src) /\ to(x) = q]
            ELSE f[q]]

\* os.Rename: neither last name is followed.  An existing directory as the
\* new name is an error (EEXIST) unless it is the old one; a directory does
\* not replace a file, nor move below itself.
Rename(f, oldname, newname) ==
    LET s == LResolve(f, oldname)
        d == LResolve(f, newname)
        fail == [ok |-> FALSE, fs |-> f]
    IN  IF ~(s.ok /\ Exists(f, s.path)) \/ ~d.ok THEN fail
        ELSE IF s.path = d.path THEN [ok |-> TRUE, fs |-> f]
        ELSE IF Exists(f, d.path) /\ f[d.path].kind = "dir" THEN fail
        ELSE IF f[s.path].kind = "dir" /\ (Exists(f, d.path) \/ IsUnder(d.path, s.path))
        THEN fail
        ELSE [ok |-> TRUE, fs |-> Moved(f, s.path, d.path)]

\* os.RemoveAll: the file or the whole directory; a path that does not
\* exist is no error.
RemoveAll(f, names) ==
    LET r == LResolve(f, names) IN
    IF ~r.ok THEN [ok |-> r.err = "ENOENT", fs |-> f]
    ELSE [ok |-> TRUE,
          fs |-> [q \in { x \in DOMAIN f : ~IsUnder(x, r.path) } |-> f[q]]]

\* os.Create and the copy of the uploaded part into it: the file the path
\* leads to, symlinks followed, is made or truncated and holds the new bytes.
Uploaded == 1

Create(f, names) ==
    LET r == Resolve(f, names) IN
    IF ~r.ok THEN [ok |-> FALSE, fs |-> f]
    ELSE IF ~Exists(f, r.path)
    THEN [ok |-> TRUE, fs |-> (r.path :> File(Uploaded)) @@ f]
    ELSE IF f[r.path].kind = "file"
    THEN [ok |-> TRUE, fs |-> [f EXCEPT ![r.path] = File(Uploaded)]]
    ELSE [ok |-> FALSE, fs |-> f]

-----------------------------------------------------------------------------
\* The configuration (the flags of main) and the shared directory.

\* initPath after main: the absolute path of the directory to share.
initPath == <<"/", "d">>

RootNames == Names(initPath)

\* -prefix: "/" by default, or a mount point such as "/a/".
ExtraPaths == { <<"/">>, <<"/", "a", "/">> }

Configs ==
    [extraPath : ExtraPaths, skipHidden : BOOLEAN, symlinks : BOOLEAN, ro : BOOLEAN]

-----------------------------------------------------------------------------
\* enforcePath: a raw path to an absolute path under initPath, or a panic.

Rejected == [ok |-> FALSE, fp |-> <<>>]

enforcePath_NoTrim(f, c, p) ==
    LET joined == Join(initPath, p)
        fp == Abs(joined)
        sl == EvalSymlinks(f, fp)
    IN  IF \/ ~HasPrefix(fp, initPath)
           \/ (c.skipHidden /\ Contains(p, <<"/", ".">>))
           \/ (~c.symlinks /\ Len(sl) > 0 /\ ~HasPrefix(sl, initPath))
        THEN Rejected
        ELSE [ok |-> TRUE, fp |-> fp]

enforcePath(f, c, p) ==
    LET joined == Join(initPath, TrimPrefix(p, c.extraPath))
        fp == Abs(joined)
        sl == EvalSymlinks(f, fp)
    IN  IF \/ ~HasPrefix(fp, initPath)
           \/ (c.skipHidden /\ Contains(p, <<"/", ".">>))
           \/ (~c.symlinks /\ Len(sl) > 0 /\ ~HasPrefix(sl, initPath))
        THEN Rejected
        ELSE [ok |-> TRUE, fp |-> fp]

-----------------------------------------------------------------------------
\* The machine the server starts on, and the paths clients send.

\* /d is shared.  It holds a directory a, in it a hidden file .h and a
\* directory a with a file a and a hidden file .h; a hidden file .h; and a
\* symlink l.  Beside /d are the directories /da and /x.
World(linkTarget) ==
    LET d == <<"d">>  a == <<"a">>  h == <<".", "h">>  l == <<"l">>
        da == <<"d", "a">>  x == <<"x">>
    IN  ( <<>>           :> Dir
       @@ <<d>>          :> Dir
       @@ <<d, a>>       :> Dir
       @@ <<d, a, h>>    :> File(0)
       @@ <<d, a, a>>    :> Dir
       @@ <<d, a, a, a>> :> File(0)
       @@ <<d, a, a, h>> :> File(0)
       @@ <<d, h>>       :> File(0)
       @@ <<d, l>>       :> Link(linkTarget)
       @@ <<da>>         :> Dir
       @@ <<x>>          :> Dir
       @@ <<x, a>>       :> File(0) )

\* What l points to: a directory outside the share, a place outside it that
\* does not exist, or the directory a beside it.
LinkTargets == { <<"/", "x">>, <<"/", "y">>, <<"a">> }

Segs == { <<"a">>, <<".", "h">>, <<"l">>, <<".", ".">>, <<"d", "a">> }

SegSeqs(n) == UNION { [1..k -> Segs] : k \in 0..n }

RECURSIVE JoinSegs(_)
JoinSegs(ss) ==
    IF ss = <<>> THEN <<>>
    ELSE IF Len(ss) = 1 THEN ss[1]
    ELSE ss[1] \o <<SLASH>> \o JoinSegs(Tail(ss))

\* A raw path: segments joined by "/", bare, after a "/" or after the prefix.
Leads(c) == { <<>>, <<SLASH>>, c.extraPath }

RawPaths(c, n) == { lead \o JoinSegs(ss) : lead \in Leads(c), ss \in SegSeqs(n) }

NoRequest == [h |-> "none"]

-----------------------------------------------------------------------------
\* SpecPath: enforcePath alone, on every raw path, on the machine as it starts.

InitPath ==
    /\ fs \in { World(t) : t \in LinkTargets }
    /\ cfg \in Configs
    /\ last = NoRequest
    /\ nmut = 0
    /\ inflight = <<>>

\* One call of enforcePath, and its return to the caller.
ResolvePath ==
    /\ last = NoRequest
    /\ \E p \in RawPaths(cfg, MaxSegs) :
        LET r == enforcePath(fs, cfg, p) IN
        last' = [h |-> "enforcePath", raw |-> p, ok |-> r.ok, fp |-> r.fp]
    /\ UNCHANGED <<fs, cfg, nmut, inflight>>

Return ==
    /\ last # NoRequest
    /\ last' = NoRequest
    /\ UNCHANGED <<fs, cfg, nmut, inflight>>

NextPath == ResolvePath \/ Return

SpecPath == InitPath /\ [][NextPath]_vars

-----------------------------------------------------------------------------
\* Claims about enforcePath.

Resolved == last.h = "enforcePath" /\ last.ok

\* C1: enforcePath rejects, or returns Root or a descendant of Root in the
\* directory tree; never a location outside Root.
C1_ResolvedUnderRoot ==
    Resolved => IsUnder(Names(last.fp), RootNames)

\* A segment that names a hidden entry: it begins with "." and is neither
\* "." nor "..".
HiddenSeg(seg) == seg # <<>> /\ Head(seg) = "." /\ seg # DOT /\ seg # DOTDOT

HasHiddenSeg(p) == \E i \in DOMAIN Split(p) : HiddenSeg(Split(p)[i])

\* C2: with skipHidden, a raw path with a segment beginning with "." is
\* rejected, wherever the segment sits.
C2_HiddenRejected ==
    (last.h = "enforcePath" /\ cfg.skipHidden /\ HasHiddenSeg(last.raw)) => ~last.ok

\* Where a symlink at q with the given target points, taken lexically.
LinkDest(q, target) ==
    IF HasPrefix(target, <<SLASH>>) THEN Names(target)
    ELSE CleanSegs(Split(target), Parent(q))

\* The path is, or passes through, a symlink whose target lies outside Root.
ThroughOutsideLink(f, names) ==
    \E k \in 1..Len(names) :
        LET q == SubSeq(names, 1, k) IN
        /\ IsUnder(q, RootNames)
        /\ Exists(f, q)
        /\ f[q].kind = "link"
        /\ ~IsUnder(LinkDest(q, f[q].target), RootNames)

\* The names enforcePath is asked for: the raw path less the prefix, on Root.
AskedNames(c, p) == Names(initPath \o <<SLASH>> \o TrimPrefix(p, c.extraPath))

\* C3: a path that is or passes through a symlink inside Root with a target
\* outside Root is rejected when followSymlinks is false, whether or not the
\* target exists, and returned when it is true.
C3_OutsideLinkRejected ==
    (last.h = "enforcePath" /\ ThroughOutsideLink(fs, AskedNames(cfg, last.raw)))
        => /\ ~cfg.symlinks => ~last.ok
           /\ (cfg.symlinks /\ ~(cfg.skipHidden /\ Contains(last.raw, <<"/", ".">>)))
                 => last.ok

\* C9 as stated: a raw path that does not begin with RoutePrefix is rejected.
C9_NoPrefixRejected ==
    (last.h = "enforcePath" /\ ~HasPrefix(last.raw, cfg.extraPath)) => ~last.ok

NoDots(p) == \A i \in 1..Len(p) : p[i] # "."

\* C9 amended: RoutePrefix is stripped from the front of the raw path when
\* it is there; a raw path that does not begin with it is not rejected for
\* that, it is resolved whole against Root (a path of plain names that meets
\* no symlink pointing out of Root is returned).
C9_PrefixStrippedWhenPresent ==
    last.h = "enforcePath" =>
        LET p == last.raw
            pre == cfg.extraPath
            rest == IF HasPrefix(p, pre) THEN SubSeq(p, Len(pre) + 1, Len(p)) ELSE p
            want == CleanSegs(Split(rest), RootNames)
        IN  /\ last.ok => Names(last.fp) = want
            /\ (NoDots(p) /\ (cfg.symlinks \/ ~ThroughOutsideLink(fs, want))) => last.ok

\* A path that does not begin with a longer RoutePrefix was resolved whole,
\* and one that begins with it was resolved without it.
C9_Witness ==
    /\ Resolved
    /\ cfg.extraPath = <<"/", "a", "/">>
    /\ \/ last.raw = <<"a", "/", "a">> /\ last.fp = <<"/", "d", "/", "a", "/", "a">>
       \/ last.raw = <<"/", "a", "/", "a">> /\ last.fp = <<"/", "d", "/", "a">>

-----------------------------------------------------------------------------
\* The handlers.  Each gives the filesystem after it and the response; a
\* panic is the response exitPath writes, 500 "error".

Panic(h) == [h |-> h, status |-> 500, body |-> "error"]

Last(q) == q[Len(q)]

\* replyList: the page for the directory at fullPath, asked for as path.
\* The rows are kept as sets of names (their order is not modelled).
replyList(f, c, fullPath, path) ==
    LET dir == Resolve(f, Names(fullPath)).path
        path2 == IF HasSuffix(path, <<SLASH>>) THEN path ELSE path \o <<SLASH>>
        shown == { q \in Children(f, dir) :
                    /\ ~(c.skipHidden /\ HasPrefix(Last(q), <<".">>))
                    /\ ~(~c.symlinks /\ f[q].kind = "link")
                    /\ StatOk(f, q) }
        isDir(q) == f[Resolve(f, q).path].kind = "dir"
    IN  [h |-> "doContent", status |-> 200, body |-> "list",
         dir |-> dir,
         parent |-> path2 # c.extraPath,
         title |-> <<SLASH>> \o TrimPrefix(path2, c.extraPath),
         folders |-> { Last(q) : q \in { x \in shown : isDir(x) } },
         files |-> { Last(q) : q \in { x \in shown : ~isDir(x) } }]

\* doContent: a listing for a directory, the file server for a file.
doContent(f, c, url) ==
    IF ~HasPrefix(url, c.extraPath)
    THEN [h |-> "doContent", status |-> 302, body |-> "redirect"]
    ELSE LET path == UnescapeString(url)
             e == enforcePath(f, c, path)
         IN  IF ~e.ok THEN Panic("doContent")
             ELSE IF ~StatOk(f, Names(e.fp)) THEN Panic("doContent")
             ELSE IF f[Resolve(f, Names(e.fp)).path].kind = "dir"
             THEN replyList(f, c, e.fp, path)
             ELSE [h |-> "doContent", status |-> 200, body |-> "file"]

\* filepath.Rel of a walked path to the walk's root, as a string.
Rel(top, q) ==
    IF q = top THEN DOT ELSE JoinSegs(SubSeq(q, Len(top) + 1, Len(q)))

\* filepath.ToSlash: the separator is "/" already.
ToSlash(s) == s

\* zipRPC: filepath.Walk calls the function on the path itself and on all
\* below it, directories entered by Lstat (a symlink is not entered).
\* Directories give no entry, a relative path beginning with "." is passed
\* over when skipHidden, a symlink met after that panics.
zipRPC(f, c, zipPath) ==
    LET e == enforcePath(f, c, zipPath) IN
    IF ~e.ok THEN Panic("zipRPC")
    ELSE IF ~LstatOk(f, Names(e.fp)) THEN Panic("zipRPC")
    ELSE LET top == LResolve(f, Names(e.fp)).path
             walked == { q \in DOMAIN f : IsUnder(q, top) /\ f[q].kind # "dir" }
             taken == { q \in walked :
                         ~(c.skipHidden /\ HasPrefix(Rel(top, q), <<".">>)) }
         IN  IF \E q \in taken : f[q].kind = "link" THEN Panic("zipRPC")
             ELSE [h |-> "zipRPC", status |-> 200, body |-> "zip",
                   top |-> top,
                   method |-> "Store",
                   entries |-> { ToSlash(Rel(top, q)) : q \in taken }]

Ok(h) == [h |-> h, status |-> 200, body |-> "ok"]

Reply(h, r) == [fs |-> r.fs, resp |-> IF r.ok THEN Ok(h) ELSE Panic(h)]

rpc_RenameUncheckedDst(f, c, call, args) ==
    IF call = "mv" /\ Len(args) >= 2 /\ enforcePath(f, c, args[1]).ok
    THEN Reply("rpc", Rename(f, Names(enforcePath(f, c, args[1]).fp),
                             Names(Join(initPath, TrimPrefix(args[2], c.extraPath)))))
    ELSE [fs |-> f, resp |-> Panic("rpc")]

\* rpc: mkdirp, mv or rm on the checked arguments; err stays nil for any
\* other call.  A missing argument is an index out of range, a panic.
rpc(f, c, call, args) ==
    LET fail == [fs |-> f, resp |-> Panic("rpc")]
        arg(i) == enforcePath(f, c, args[i])
    IN  IF call = "mkdirp"
        THEN IF Len(args) < 1 \/ ~arg(1).ok THEN fail
             ELSE Reply("rpc", MkdirAll(f, Names(arg(1).fp)))
        ELSE IF call = "mv"
        THEN IF Len(args) < 1 \/ ~arg(1).ok \/ Len(args) < 2 \/ ~arg(2).ok THEN fail
             ELSE Reply("rpc", Rename(f, Names(arg(1).fp), Names(arg(2).fp)))
        ELSE IF call = "rm"
        THEN IF Len(args) < 1 \/ ~arg(1).ok THEN fail
             ELSE Reply("rpc", RemoveAll(f, Names(arg(1).fp)))
        ELSE [fs |-> f, resp |-> Ok("rpc")]

\* url.PathUnescape: %XX becomes its character.
PathUnescapeChar(ch) ==
    IF ch = "%2F" THEN "/" ELSE IF ch = "%2E" THEN "." ELSE ch

PathUnescape(s) == [i \in 1..Len(s) |-> PathUnescapeChar(s[i])]

\* upload: the first part of the body goes to the file at the gossa-path.
upload(f, c, header) ==
    LET path == PathUnescape(header)
        e == enforcePath(f, c, path)
    IN  IF ~e.ok THEN [fs |-> f, resp |-> Panic("upload")]
        ELSE Reply("upload", Create(f, Names(e.fp)))

-----------------------------------------------------------------------------
\* main: the routes.

\* The URL of a route: the prefix and the route's name, one symbol here.
RouteUrl(c, name) == c.extraPath \o <<name>>

\* ServeMux's cleanPath: the path without ".", ".." and empty segments, its
\* trailing slash kept.  A request whose path is not clean is redirected.
cleanPath(url) ==
    LET n == Names(url) IN
    IF n # <<>> /\ HasSuffix(url, <<SLASH>>) THEN Str(n) \o <<SLASH>> ELSE Str(n)

Route_AlwaysMounted(c, url) ==
    IF cleanPath(url) # url THEN "redirect"
    ELSE IF url = RouteUrl(c, "rpc") THEN "rpc"
    ELSE IF url = RouteUrl(c, "post") THEN "upload"
    ELSE IF url = RouteUrl(c, "zip") THEN "zipRPC"
    ELSE "doContent"

\* The handler a URL reaches: rpc and post are mounted unless read-only, zip
\* always, and "/" takes every other path.
Route(c, url) ==
    IF cleanPath(url) # url THEN "redirect"
    ELSE IF ~c.ro /\ url = RouteUrl(c, "rpc") THEN "rpc"
    ELSE IF ~c.ro /\ url = RouteUrl(c, "post") THEN "upload"
    ELSE IF url = RouteUrl(c, "zip") THEN "zipRPC"
    ELSE "doContent"

\* One request served: the handler its URL reaches runs on what it carries.
Handle(f, c, req) ==
    LET h == Route(c, req.url) IN
    IF h = "rpc" THEN rpc(f, c, req.call, req.args)
    ELSE IF h = "upload" THEN upload(f, c, req.header)
    ELSE IF h = "zipRPC" THEN [fs |-> f, resp |-> zipRPC(f, c, req.zipPath)]
    ELSE IF h = "doContent" THEN [fs |-> f, resp |-> doContent(f, c, req.url)]
    ELSE [fs |-> f, resp |-> [h |-> "mux", status |-> 301, body |-> "redirect"]]

-----------------------------------------------------------------------------
\* Spec: the server, one request at a time.

\* What requests carry.  A path is one of these, bare or after the prefix:
\* Root, a directory, a hidden file, the symlink, the parent of Root, the
\* directory beside Root, a name not there, and paths below a and l.
ReqTails ==
    { <<>>, <<"a">>, <<".", "h">>, <<"l">>, <<".", ".">>, <<"d", "a">>,
      <<".", ".", "/", "d", "a">>, <<"a", "/", ".", "h">>, <<"a", "/", "a">>,
      <<"l", "/", "a">> }

ReqPaths(c) == { lead \o t : lead \in { <<>>, c.extraPath }, t \in ReqTails }

\* The URL paths asked of doContent: under the prefix or not, with and
\* without the trailing slash, one with a character reference for "/".
UrlTails ==
    { <<>>, <<"a">>, <<"a", "/">>, <<"a", "/", "a", "/">>, <<".", "h">>,
      <<"l">>, <<"l", "/">>, <<".", ".">>, <<"d", "a">>, <<"&#47;">>,
      <<"a", "/", "&#47;">> }

UrlPaths(c) == { lead \o t : lead \in { <<SLASH>>, c.extraPath }, t \in UrlTails }

Calls == { "mkdirp", "mv", "rm", "cp", "" }

ArgLists(c, call) ==
    { <<>> } \cup { <<p>> : p \in ReqPaths(c) }
             \cup (IF call = "mv"
                   THEN { <<p, q>> : p \in ReqPaths(c), q \in ReqPaths(c) }
                   ELSE {})

NoBody == [call |-> "", args |-> <<>>, header |-> <<>>, zipPath |-> <<>>]

\* The server starts with l pointing out of the share, to a directory or to
\* a place that does not exist.
Init ==
    /\ fs \in { World(t) : t \in { <<"/", "x">>, <<"/", "y">> } }
    /\ cfg \in Configs
    /\ last = NoRequest
    /\ nmut = 0
    /\ inflight = <<>>

\* A request is answered; last holds the request and the response until
\* the connection is done with (Return).
Serve(req) ==
    LET out == Handle(fs, cfg, req) IN
    /\ fs' = out.fs
    /\ last' = [req |-> req] @@ out.resp
    /\ nmut' = IF out.fs # fs THEN nmut + 1 ELSE nmut
    /\ UNCHANGED <<cfg, inflight>>

\* The server takes the next request; one that reaches rpc or upload only
\* while fewer than MaxMut requests have changed the filesystem.
Idle(url) ==
    /\ last = NoRequest
    /\ Route(cfg, url) \in { "rpc", "upload" } => nmut < MaxMut

GetContent ==
    /\ last = NoRequest
    /\ \E u \in UrlPaths(cfg) : Serve([url |-> u] @@ NoBody)

GetZip ==
    /\ Idle(RouteUrl(cfg, "zip"))
    /\ \E p \in ReqPaths(cfg) :
        Serve([url |-> RouteUrl(cfg, "zip")] @@ [NoBody EXCEPT !.zipPath = p])

PostRpc ==
    /\ Idle(RouteUrl(cfg, "rpc"))
    /\ \E call \in Calls : \E args \in ArgLists(cfg, call) :
        Serve([url |-> RouteUrl(cfg, "rpc")]
              @@ [NoBody EXCEPT !.call = call, !.args = args])

PostUpload ==
    /\ Idle(RouteUrl(cfg, "post"))
    /\ \E p \in ReqPaths(cfg) :
        Serve([url |-> RouteUrl(cfg, "post")] @@ [NoBody EXCEPT !.header = p])

Next == GetContent \/ GetZip \/ PostRpc \/ PostUpload \/ Return

Spec == Init /\ [][Next]_vars

-----------------------------------------------------------------------------
\* Claims about the handlers.

Mutating == { "rpc", "upload" }

\* C4: in read-only mode no request reaches rpc or upload (POST rpc and
\* POST post are not routed to them), so no request changes the filesystem;
\* GET zip still reaches zipRPC and the listing of Root is still served.
C4_ReadOnlyChangesNothing ==
    [][cfg.ro =>
        /\ fs' = fs
        /\ last' # NoRequest =>
            /\ last'.h \notin Mutating
            /\ last'.req.url = RouteUrl(cfg, "zip") => last'.h = "zipRPC"
            /\ last'.req.url = cfg.extraPath =>
                  last'.status = 200 /\ last'.body = "list"]_vars

\* Read-only, a POST rpc asking for rm of an existing directory was served
\* by doContent.
C4_Witness ==
    /\ cfg.ro
    /\ last # NoRequest
    /\ last.h = "doContent"
    /\ last.req.url = RouteUrl(cfg, "rpc")
    /\ last.req.call = "rm"
    /\ last.req.args = << <<"a">> >>
    /\ IsDirAt(fs, << <<"d">>, <<"a">> >>)

\* The path arguments a mutating request hands to enforcePath.
CheckedArgs(h, req) ==
    IF h = "upload" THEN << PathUnescape(req.header) >>
    ELSE IF req.call = "mv" THEN SubSeq(req.args, 1, IF Len(req.args) < 2 THEN Len(req.args) ELSE 2)
    ELSE IF req.call \in { "mkdirp", "rm" }
    THEN SubSeq(req.args, 1, IF Len(req.args) < 1 THEN 0 ELSE 1)
    ELSE <<>>

\* C5: when enforcePath rejects the source or the destination of mv, or the
\* path of mkdirp, rm or upload, the request fails with the error response
\* and the filesystem is as before.
C5_RejectedArgumentChangesNothing ==
    [][(last' # NoRequest /\ last'.h \in Mutating) =>
        LET args == CheckedArgs(last'.h, last'.req) IN
        (\E i \in DOMAIN args : ~enforcePath(fs, cfg, args[i]).ok)
            => (fs' = fs /\ last'.status = 500 /\ last'.body = "error")]_vars

\* A mv whose source is accepted and exists and whose destination is
\* rejected has been answered with the error.
C5_Witness ==
    /\ last # NoRequest
    /\ last.h = "rpc"
    /\ last.req.call = "mv"
    /\ Len(last.req.args) = 2
    /\ enforcePath(fs, cfg, last.req.args[1]).ok
    /\ LstatOk(fs, Names(enforcePath(fs, cfg, last.req.args[1]).fp))
    /\ Names(enforcePath(fs, cfg, last.req.args[1]).fp) # RootNames
    /\ ~enforcePath(fs, cfg, last.req.args[2]).ok
    /\ last.status = 500

\* C6: an rpc whose call is not mkdirp, mv or rm gets the error response,
\* never "ok".
C6_UnknownCallRejected ==
    (last # NoRequest /\ last.h = "rpc"
        /\ last.req.call \notin { "mkdirp", "mv", "rm" })
        => (last.status = 500 /\ last.body = "error")

\* The files a zip of top should hold when skipHidden: what is below top,
\* is no directory and has no hidden segment in its relative path.
VisibleBelow(f, top) ==
    { q \in DOMAIN f :
        /\ IsUnder(q, top) /\ q # top
        /\ f[q].kind # "dir"
        /\ \A i \in (Len(top) + 1)..Len(q) : ~HiddenSeg(q[i]) }

\* C7: with skipHidden, the archive of a subtree without symlinks holds
\* exactly the non-directory descendants whose relative path has no hidden
\* segment at any depth, named by their relative path and stored.
C7_ZipEntriesExact ==
    (/\ last # NoRequest
     /\ last.h = "zipRPC" /\ last.status = 200
     /\ cfg.skipHidden
     /\ \A q \in DOMAIN fs : IsUnder(q, last.top) => fs[q].kind # "link")
        => /\ last.entries = { JoinSegs(SubSeq(q, Len(last.top) + 1, Len(q))) :
                                 q \in VisibleBelow(fs, last.top) }
           /\ last.method = "Store"

\* C8: a listing has the parent entry iff the directory listed is not Root.
C8_ParentIffNotRoot ==
    (last # NoRequest /\ last.h = "doContent" /\ last.body = "list")
        => (last.parent <=> last.dir # RootNames)

-----------------------------------------------------------------------------
\* SpecConc: requests served concurrently.  net/http runs each handler in
\* its own goroutine and the handlers take no lock, so between a handler's
\* enforcePath and its call on the filesystem other handlers may run.

\* Most handlers between their check and their call, and most requests in
\* one behaviour.
MaxInflight == 2
MaxConcReqs == 2
\* Most segments in the paths these requests carry.
MaxConcSegs == 2

\* Every symlink leads into the share: /d/a/l -> ../f is /d/f.  /f is a
\* file beside the share.
WorldConc ==
    LET d == <<"d">>  a == <<"a">>  l == <<"l">>  ff == <<"f">>
    IN  ( <<>>        :> Dir
       @@ <<d>>       :> Dir
       @@ <<d, a>>    :> Dir
       @@ <<d, a, l>> :> Link(<<".", ".", "/", "f">>)
       @@ <<d, ff>>   :> File(0)
       @@ <<ff>>      :> File(0) )

ConcSegs == { <<"a">>, <<"l">>, <<"f">> }

ConcPaths ==
    { JoinSegs(ss) : ss \in UNION { [1..k -> ConcSegs] : k \in 0..MaxConcSegs } }

ConcArgs(call) ==
    IF call = "mv" THEN { <<p, q>> : p \in ConcPaths, q \in ConcPaths }
    ELSE { <<p>> : p \in ConcPaths }

InitConc ==
    /\ fs = WorldConc
    /\ cfg = [extraPath |-> <<"/">>, skipHidden |-> TRUE, symlinks |-> FALSE, ro |-> FALSE]
    /\ last = NoRequest
    /\ nmut = 0
    /\ inflight = <<>>

\* The first half of a handler: every path argument through enforcePath.
\* A rejected one panics and the request is over; else the handler holds
\* the paths returned.  nmut counts the requests begun.
Checked(h, call, args) ==
    /\ nmut' = nmut + 1
    /\ IF \A i \in DOMAIN args : enforcePath(fs, cfg, args[i]).ok
       THEN /\ inflight' = Append(inflight,
                    [h |-> h, call |-> call,
                     fps |-> [i \in DOMAIN args |-> enforcePath(fs, cfg, args[i]).fp]])
            /\ last' = last
       ELSE /\ inflight' = inflight
            /\ last' = Panic(h)
    /\ UNCHANGED <<fs, cfg>>

\* A request may come while fewer than MaxConcReqs have and fewer than
\* MaxInflight handlers are running.
Accepting == nmut < MaxConcReqs /\ Len(inflight) < MaxInflight

RpcCheck ==
    /\ Accepting
    /\ \E call \in { "mkdirp", "mv", "rm" } : \E args \in ConcArgs(call) :
        Checked("rpc", call, args)

UploadCheck ==
    /\ Accepting
    /\ \E p \in ConcPaths : Checked("upload", "", <<PathUnescape(p)>>)

\* The second half: the call on the filesystem, on the paths held.
Called(i, h, out) ==
    /\ i \in DOMAIN inflight
    /\ inflight[i].h = h
    /\ fs' = out.fs
    /\ last' = out.resp
    /\ inflight' = [j \in 1..(Len(inflight) - 1) |->
                        IF j < i THEN inflight[j] ELSE inflight[j + 1]]
    /\ UNCHANGED <<cfg, nmut>>

RpcCall ==
    \E i \in DOMAIN inflight :
        LET r == inflight[i]
            out == IF r.call = "mkdirp" THEN MkdirAll(fs, Names(r.fps[1]))
                   ELSE IF r.call = "mv" THEN Rename(fs, Names(r.fps[1]), Names(r.fps[2]))
                   ELSE RemoveAll(fs, Names(r.fps[1]))
        IN  Called(i, "rpc", Reply("rpc", out))

UploadCreate ==
    \E i \in DOMAIN inflight :
        Called(i, "upload", Reply("upload", Create(fs, Names(inflight[i].fps[1]))))

NextConc == RpcCheck \/ UploadCheck \/ RpcCall \/ UploadCreate

SpecConc == InitConc /\ [][NextConc]_vars

\* The places where two filesystems differ.
Changed(f, g) ==
    { q \in DOMAIN f \cup DOMAIN g :
        q \notin DOMAIN f \/ q \notin DOMAIN g \/ f[q] # g[q] }

\* C10: with followSymlinks false and every symlink leading into Root at
\* the start, whatever a handler creates, truncates, renames or removes is
\* within Root, however the requests interleave.
C10_TouchedWithinRoot ==
    [][\A q \in Changed(fs, fs') : IsUnder(q, RootNames)]_vars

====
